---- MODULE Spec2Model ----
(***************************************************************************)
(* GPU particle simulation of GLBparticlesManipulation: the per-particle   *)
(* compute shader, the fiber spring shader, the WebGPUParticleSystem that  *)
(* owns the buffers and submits the passes, and the host frame loop with   *)
(* its control panel and its asynchronous readback into the CPU mirror.    *)
(*                                                                         *)
(* Numbers.  f32 quantities are fixed-point integers: lengths, speeds,     *)
(* forces and control parameters in hundredths (Scale), deltaTime in       *)
(* ticks of 1/60 s (TicksPerSec), life in 1/6000 s (LifeOne is 1.0 s), so  *)
(* that deltaTime * respawnRate is exact.  Products and quotients round    *)
(* toward zero.                                                            *)
(*                                                                         *)
(* Buffers are modelled at the level of the fields the WGSL structs        *)
(* declare (a store is an array of records); byte layout is not modelled.  *)
(*                                                                         *)
(* The sine hash and the simplex curl noise cannot be evaluated here; each *)
(* is replaced by a fixed deterministic function of the same argument with *)
(* the same range (hash: a multiple of 1/HashRes in [0,1); curlNoise: a    *)
(* unit vector), and the respawn angles fall on the grid where sin and cos *)
(* are known.                                                              *)
(*                                                                         *)
(* Scheduling.  Commands run in queue order; the invocations of the fiber  *)
(* pass interleave freely at the granularity of their loads and stores.    *)
(* Spec is the program with its control panel; SpecFiber is one fiber     *)
(* pass over drawn stores, for the properties of the fiber shader as a     *)
(* function; SpecMorph is the program with the morph button and the        *)
(* position tweens; SpecPointer runs the frames over drawn pointer         *)
(* parameters, for the pointer term and the uniforms as functions;         *)
(* SpecTargets is the frame loop with the uploads of target and particle   *)
(* arrays; SpecFrames is the frame loop with frames whose statements throw *)
(* and readbacks that reject.                                              *)
(***************************************************************************)
EXTENDS Integers, Sequences, FiniteSets, TLC

\* ------------------------------------------------------------ model bounds
\* Scaled-down sizes (the source's values are in the comments).
DefaultCount == 4     \* constructor: this.particleCount = 2500
MinCount == 2         \* setParticleCount clamp: 100
MaxCount == 6         \* setParticleCount clamp: 10000
WorkgroupSize == 2    \* @workgroup_size(64)
MaxFibers == 2        \* constructor: this.maxFibers = 5000
FiberPool == 3        \* initializeFibers: Math.min(this.particleCount, 1000)
MaxFrames == 2        \* frames of the loop that are explored
MaxReadbacks == 2     \* readbacks that may be in flight
MaxEvents == 2        \* control panel events that are explored
MaxMorphEvents == 3   \* morph button and morph speed events that are explored

\* ------------------------------------------------------------ fixed point
Scale == 10 * 10
TicksPerSec == 6 * 10
LifeOne == Scale * TicksPerSec
HashRes == 2 + 2

Abs(a) == IF a < 0 THEN -a ELSE a
Min(a, b) == IF a < b THEN a ELSE b
Max(a, b) == IF a > b THEN a ELSE b
\* truncating division, b > 0
Quot(a, b) == IF a >= 0 THEN a \div b ELSE -((-a) \div b)
\* product of two Scale-d numbers
Mul(a, b) == Quot(a * b, Scale)
\* a Scale-d number times a deltaTime in ticks
MulDt(a, dt) == Quot(a * dt, TicksPerSec)
CeilDiv(a, b) == (a + b - 1) \div b

RECURSIVE SqrtIter(_, _, _)
SqrtIter(n, lo, hi) ==
  IF lo >= hi THEN lo
  ELSE LET mid == (lo + hi + 1) \div 2
       IN IF mid * mid <= n THEN SqrtIter(n, mid, hi) ELSE SqrtIter(n, lo, mid - 1)
Isqrt(n) == SqrtIter(n, 0, Min(n, 40000))

\* ------------------------------------------------------------ vec3<f32>
Vec(x, y, z) == <<x, y, z>>
Zero3 == <<0, 0, 0>>
VAdd(a, b) == <<a[1] + b[1], a[2] + b[2], a[3] + b[3]>>
VSub(a, b) == <<a[1] - b[1], a[2] - b[2], a[3] - b[3]>>
VNeg(a) == <<-a[1], -a[2], -a[3]>>
VScale(a, k) == <<Mul(a[1], k), Mul(a[2], k), Mul(a[3], k)>>
VDt(a, dt) == <<MulDt(a[1], dt), MulDt(a[2], dt), MulDt(a[3], dt)>>
VAddScalar(a, s) == <<a[1] + s, a[2] + s, a[3] + s>>
Dot(a, b) == Quot(a[1] * b[1] + a[2] * b[2] + a[3] * b[3], Scale)
Length(a) == Isqrt(a[1] * a[1] + a[2] * a[2] + a[3] * a[3])
\* a / |a| for |a| = d > 0
VDivLen(a, d) == <<Quot(a[1] * Scale, d), Quot(a[2] * Scale, d), Quot(a[3] * Scale, d)>>
\* WGSL mix(a, b, t) = a * (1 - t) + b * t
Mix(a, b, t) == VAdd(VScale(a, Scale - t), VScale(b, t))
Clamp(x, lo, hi) == Min(Max(x, lo), hi)

\* ------------------------------------------------------------ particleComputeShader
\* struct Particle { position, velocity, life, size, color, targetPos }
SlowColor == <<10, 40, 90>>
FastColor == <<100, 90, 30>>

\* fn hash(p): fract(sin(dot(p, ...)) * 43758.5453), here k with hash = k / HashRes
hash(p) == (p[1] + 3 * p[2] + 7 * p[3]) % HashRes

\* cos and sin of k quarter turns (theta = hash * 2 * 3.14159)
Cos4(k) == IF k = 0 THEN Scale ELSE IF k = 2 THEN -Scale ELSE 0
Sin4(k) == IF k = 1 THEN Scale ELSE IF k = 3 THEN -Scale ELSE 0

\* fn curlNoise(p): normalize(...), a unit vector
curlNoise(p) ==
  LET k == (p[1] + p[2] + p[3]) % 6
  IN IF k = 0 THEN <<Scale, 0, 0>> ELSE IF k = 1 THEN <<0, Scale, 0>>
     ELSE IF k = 2 THEN <<0, 0, Scale>> ELSE IF k = 3 THEN <<-Scale, 0, 0>>
     ELSE IF k = 4 THEN <<0, -Scale, 0>> ELSE <<0, 0, -Scale>>

\* uniforms.time (ticks) as a Scale-d number of seconds
TimeSec(t) == Quot(t * Scale, TicksPerSec)

\* the respawn point: radius * (sin phi cos theta, sin phi sin theta, cos phi)
respawnPosition(particle, uniforms) ==
  LET rx == hash(VAddScalar(particle.position, TimeSec(uniforms.time)))
      ry == hash(particle.velocity)
      rz == hash(particle.targetPos)
      cosPhi == Quot(2 * ry * Scale, HashRes) - Scale
      sinPhi == Isqrt(Scale * Scale - cosPhi * cosPhi)
      radius == Quot(rz * 5 * Scale, HashRes)
  IN <<Mul(Mul(radius, sinPhi), Cos4(rx)),
       Mul(Mul(radius, sinPhi), Sin4(rx)),
       Mul(radius, cosPhi)>>

\* particle.life = 1.0 + hash(particle.position) * 2.0
respawnLife(position) == LifeOne + Quot(hash(position) * 2 * LifeOne, HashRes)

\* particle.life -= dt * uniforms.respawnRate
decrementedLife(particle, uniforms) ==
  particle.life - uniforms.deltaTime * uniforms.respawnRate

\* --- 1. Particle Life Cycle ---
ParticleRespawnMoved(particle, uniforms) ==
  LET life1 == decrementedLife(particle, uniforms)
  IN IF life1 <= 0
     THEN [particle EXCEPT !.life = respawnLife(respawnPosition(particle, uniforms))]
     ELSE [particle EXCEPT !.life = life1]
LifeCycleNoDecrement(particle, uniforms) ==
  IF particle.life <= 0
  THEN LET np == respawnPosition(particle, uniforms)
       IN [particle EXCEPT !.position = np, !.velocity = Zero3, !.life = respawnLife(np)]
  ELSE particle
lifeCycle(particle, uniforms) ==
  LET life1 == decrementedLife(particle, uniforms)
  IN IF life1 <= 0
     THEN LET np == respawnPosition(particle, uniforms)
          IN [particle EXCEPT !.position = np, !.velocity = Zero3,
                              !.life = respawnLife(np)]
     ELSE [particle EXCEPT !.life = life1]

\* --- 2. Calculate Forces ---
turbulenceForce(particle, uniforms) ==
  LET noisePos == VScale(particle.position, 20)
  IN VScale(curlNoise(VAddScalar(noisePos, Quot(uniforms.time * 5, TicksPerSec))),
            uniforms.turbulence)

gravityForce(uniforms) == <<0, -uniforms.gravity, 0>>

\* hasTarget: index < arrayLength(&targets)
targetForce(particle, uniforms, morphTarget, hasTarget) ==
  LET attractionTarget ==
        IF hasTarget THEN Mix(particle.targetPos, morphTarget, uniforms.morphProgress)
        ELSE particle.targetPos
  IN VScale(VSub(attractionTarget, particle.position), uniforms.attraction)

\* a pointer term whose falloff is linear
MouseForceLinearFalloff(particle, uniforms) ==
  IF uniforms.hoverRadius > 0
  THEN LET mousePos3D == <<uniforms.mousePos[1], uniforms.mousePos[2], 0>>
           mouseVec == VSub(particle.position, mousePos3D)
           mouseDistance == Length(mouseVec)
       IN IF mouseDistance < uniforms.hoverRadius /\ mouseDistance > 0
          THEN LET direction == VDivLen(mouseVec, mouseDistance)
                   falloff == Scale - Quot(mouseDistance * Scale, uniforms.hoverRadius)
                   strength == Mul(Mul(falloff, uniforms.hoverStrength),
                                   uniforms.mouseInfluence)
               IN IF uniforms.hoverRepulsion * 2 > 1
                  THEN VScale(direction, strength)
                  ELSE VNeg(VScale(direction, strength))
          ELSE Zero3
  ELSE Zero3

\* a pointer term that takes the size of the radius and ignores its sign
MouseForceAbsRadius(particle, uniforms) ==
  LET mousePos3D == <<uniforms.mousePos[1], uniforms.mousePos[2], 0>>
      mouseVec == VSub(particle.position, mousePos3D)
      mouseDistance == Length(mouseVec)
      radius == Abs(uniforms.hoverRadius)
  IN IF mouseDistance < radius /\ mouseDistance > 0
     THEN LET direction == VDivLen(mouseVec, mouseDistance)
              t == Scale - Quot(mouseDistance * Scale, radius)
              strength == Mul(Mul(Mul(t, t), uniforms.hoverStrength),
                              uniforms.mouseInfluence)
          IN IF uniforms.hoverRepulsion * 2 > 1
             THEN VScale(direction, strength)
             ELSE VNeg(VScale(direction, strength))
     ELSE Zero3
\* // Mouse Interaction.  At mouseDistance = 0 the shader divides the zero vector by
\* zero and the force has no direction; the particles explored keep off the pointer
\* point or, where one sits on it, the term is taken as absent.
mouseForce(particle, uniforms) ==
  IF uniforms.hoverRadius > 0
  THEN LET mousePos3D == <<uniforms.mousePos[1], uniforms.mousePos[2], 0>>
           mouseVec == VSub(particle.position, mousePos3D)
           mouseDistance == Length(mouseVec)
       IN IF mouseDistance < uniforms.hoverRadius /\ mouseDistance > 0
          THEN LET direction == VDivLen(mouseVec, mouseDistance)
                   t == Scale - Quot(mouseDistance * Scale, uniforms.hoverRadius)
                   falloff == Mul(t, t)
                   strength == Mul(Mul(falloff, uniforms.hoverStrength),
                                   uniforms.mouseInfluence)
               IN IF uniforms.hoverRepulsion * 2 > 1
                  THEN VScale(direction, strength)
                  ELSE VNeg(VScale(direction, strength))
          ELSE Zero3
  ELSE Zero3

\* --- 3. Apply Forces and Update State ---
integrate(particle, force, dt) ==
  LET v1 == VAdd(particle.velocity, VDt(force, dt))
      v2 == <<Quot(v1[1] * 98, 100), Quot(v1[2] * 98, 100), Quot(v1[3] * 98, 100)>>
  IN [particle EXCEPT !.velocity = v2, !.position = VAdd(particle.position, VDt(v2, dt))]

\* --- 4. Update Visuals ---
velocityColor(velocity) ==
  LET speed == Clamp(Length(velocity), 0, Scale \div 2)
      t == Clamp(Quot(speed * Scale, Scale \div 2), 0, Scale)
      smooth == Mul(Mul(t, t), 3 * Scale - 2 * t)
  IN Mix(SlowColor, FastColor, smooth)

\* steps 2 to 4 of fn main, applied to the particle that step 1 left
forcesAndIntegration(p1, uniforms, morphTarget, hasTarget) ==
  LET force == VAdd(VAdd(turbulenceForce(p1, uniforms), gravityForce(uniforms)),
                    VAdd(targetForce(p1, uniforms, morphTarget, hasTarget),
                         mouseForce(p1, uniforms)))
      p2 == integrate(p1, force, uniforms.deltaTime)
  IN [p2 EXCEPT !.color = velocityColor(p2.velocity)]

\* fn main, for one index below u32(uniforms.particleCount): the record stored by
\* particles[index] = particle.  Nothing returns or stores between step 1 and
\* step 2, so a respawned particle goes through steps 2 to 4 as well.
particleMain(particle, uniforms, morphTarget, hasTarget) ==
  forcesAndIntegration(lifeCycle(particle, uniforms), uniforms, morphTarget, hasTarget)

\* ------------------------------------------------------------ fiberComputeShader
\* struct Fiber { start, end, strength, length, isActive }
\* struct FiberUniforms { maxDistance, springStrength, springDamping, deltaTime }

\* currentDistance = length(endParticle.position - startParticle.position)
currentDistance(startParticle, endParticle) ==
  Length(VSub(endParticle.position, startParticle.position))

\* if (currentDistance > uniforms.maxDistance)
fiberOverstretched(startParticle, endParticle, funiforms) ==
  currentDistance(startParticle, endParticle) > funiforms.maxDistance

\* if (currentDistance < 0.0001)
fiberDegenerate(startParticle, endParticle) ==
  currentDistance(startParticle, endParticle) * 100 < 1

\* totalForce = springForce + dampingForce
totalForce(fiber, startParticle, endParticle, funiforms) ==
  LET vecBetween == VSub(endParticle.position, startParticle.position)
      dist == Length(vecBetween)
      direction == VDivLen(vecBetween, dist)
      displacement == dist - fiber.length
      springForceMagnitude == Mul(displacement, funiforms.springStrength)
      springForce == VScale(direction, springForceMagnitude)
      relativeVelocity == VSub(endParticle.velocity, startParticle.velocity)
      velocityAlongAxis == Dot(relativeVelocity, direction)
      dampingForceMagnitude == Mul(velocityAlongAxis, funiforms.springDamping)
      dampingForce == VScale(direction, dampingForceMagnitude)
  IN VAdd(springForce, dampingForce)

\* deltaVelocity = totalForce * uniforms.deltaTime
deltaVelocity(fiber, startParticle, endParticle, funiforms) ==
  VDt(totalForce(fiber, startParticle, endParticle, funiforms), funiforms.deltaTime)

\* What one invocation does with the copies it loaded:
\*   "skip"   inactive fiber or degenerate distance: nothing is stored
\*   "break"  fiber stored with isActive = 0, nothing else
\*   "apply"  both particles and the fiber are stored
fiberOutcome(fiber, startParticle, endParticle, funiforms) ==
  IF fiber.isActive * 2 < 1 THEN "skip"
  ELSE IF fiberOverstretched(startParticle, endParticle, funiforms) THEN "break"
  ELSE IF fiberDegenerate(startParticle, endParticle) THEN "skip"
  ELSE "apply"

\* an end particle pushed the same way as the start particle
FiberEndPushed(fiber, startParticle, endParticle, funiforms) ==
  [endParticle EXCEPT !.velocity =
     VAdd(endParticle.velocity, deltaVelocity(fiber, startParticle, endParticle, funiforms))]
\* a start particle whose stored velocity keeps what the store held
FiberStartUnmoved(fiber, startParticle, endParticle, funiforms) == startParticle
\* a break that also clears the strength
FiberBrokenCleared(fiber) == [fiber EXCEPT !.isActive = 0, !.strength = 0]

\* the three records an "apply" invocation stores
fiberStartStored(fiber, startParticle, endParticle, funiforms) ==
  [startParticle EXCEPT !.velocity =
     VAdd(startParticle.velocity, deltaVelocity(fiber, startParticle, endParticle, funiforms))]
fiberEndStored(fiber, startParticle, endParticle, funiforms) ==
  [endParticle EXCEPT !.velocity =
     VSub(endParticle.velocity, deltaVelocity(fiber, startParticle, endParticle, funiforms))]
fiberStored(fiber, startParticle, endParticle, funiforms) ==
  [fiber EXCEPT !.strength = Length(totalForce(fiber, startParticle, endParticle, funiforms))]
\* the record a "break" invocation stores
fiberBroken(fiber) == [fiber EXCEPT !.isActive = 0]


\* ------------------------------------------------------------ host values
\* a controlState property that was never assigned
Undefined == 0 - 1000000
\* JavaScript a || b on numbers: 0 and undefined are falsy
JsOr(a, b) == IF a = Undefined \/ a = 0 THEN b ELSE a
\* JavaScript a > 0
JsPositive(a) == a /= Undefined /\ a > 0

\* deltaTime of a frame after the first, in ticks: a 60 Hz frame, and a frame after
\* the page was in the background for five seconds
DtValues == {1, 5 * TicksPerSec}
\* values the particle-count slider and the presets hand to setParticleCount
CountValues == {MinCount - 1, DefaultCount + 1, MaxCount + 1}
\* initializeTargets loads three shapes: logo, life, nati
NumShapes == 3
\* morphProgress values animateMorphProgress passes through (elapsed / duration)
ProgressValues == {Scale \div 2, Scale}

\* const controlState = { ... }
controlStateInit ==
  [particleCount |-> DefaultCount,
   fibersEnabled |-> TRUE,
   fiberStrength |-> 450,
   connectionDistance |-> 200,
   gravity |-> 0,
   turbulence |-> 10,
   attraction |-> 100,
   morphSpeed |-> 200,
   mousePos |-> <<0, 0>>,
   hoverEnabled |-> FALSE,
   hoverRadius |-> 300,
   hoverStrength |-> 200,
   hoverRepulsion |-> FALSE,
   mouseInfluence |-> 100,
   respawnRate |-> 20,
   morphProgress |-> Undefined,
   fiberDamping |-> Undefined]

\* const presets = { organic: ..., minimal: ... }
presets ==
  [organic |-> [particleCount |-> DefaultCount + 1, fibersEnabled |-> TRUE,
                fiberStrength |-> 30, connectionDistance |-> 150, gravity |-> -20,
                turbulence |-> 15, attraction |-> 80, morphSpeed |-> 150],
   minimal |-> [particleCount |-> FiberPool, fibersEnabled |-> FALSE,
                fiberStrength |-> 10, connectionDistance |-> 100, gravity |-> 0,
                turbulence |-> 2, attraction |-> 200, morphSpeed |-> 250]]
PresetNames == {"organic", "minimal"}

\* ------------------------------------------------------------ WebGPUParticleSystem
\* updateUniforms: the Float32Array written to buffers.uniforms
uniformData(time, deltaTime, particleCount, params) ==
  [time |-> time,
   deltaTime |-> deltaTime,
   particleCount |-> particleCount,
   gravity |-> JsOr(params.gravity, 0),
   turbulence |-> JsOr(params.turbulence, 50),
   attraction |-> JsOr(params.attraction, 100),
   morphProgress |-> JsOr(params.morphProgress, 0),
   mousePos |-> <<JsOr(params.mousePos[1], 0), JsOr(params.mousePos[2], 0)>>,
   hoverRadius |-> JsOr(params.hoverRadius, 300),
   hoverStrength |-> JsOr(params.hoverStrength, 200),
   mouseInfluence |-> JsOr(params.mouseInfluence, 100),
   hoverRepulsion |-> IF params.hoverRepulsion THEN 1 ELSE 0,
   respawnRate |-> JsOr(params.respawnRate, 20)]

\* updateUniforms: the Float32Array written to buffers.fiberUniforms
fiberUniformData(deltaTime, params) ==
  [maxDistance |-> JsOr(params.connectionDistance, 200),
   springStrength |-> JsOr(params.fiberStrength, 50),
   springDamping |-> JsOr(params.fiberDamping, 5),
   deltaTime |-> deltaTime]

\* a clamp that keeps the lower limit alone
ClampCountNoUpper(count) == Max(count, MinCount)

\* setParticleCount: Math.min(Math.max(count, 100), 10000)
clampCount(count) == Min(Max(count, MinCount), MaxCount)

\* compute: Math.ceil(this.particleCount / 64) workgroups of 64 invocations
particleInvocations(particleCount) ==
  0 .. (CeilDiv(particleCount, WorkgroupSize) * WorkgroupSize - 1)

\* createBuffers: the stores hold DefaultCount particles and MaxFibers fibers
Capacity == DefaultCount
ParticleIds == 0 .. (Capacity - 1)
FiberIds == 0 .. (MaxFibers - 1)

ZeroParticle ==
  [position |-> Zero3, velocity |-> Zero3, life |-> 0, color |-> Zero3,
   targetPos |-> Zero3]
ZeroFiber == [start |-> 0, end |-> 0, strength |-> 0, length |-> 0, isActive |-> 0]
ZeroUniforms ==
  [time |-> 0, deltaTime |-> 0, particleCount |-> 0, gravity |-> 0, turbulence |-> 0,
   attraction |-> 0, morphProgress |-> 0, mousePos |-> <<0, 0>>, hoverRadius |-> 0,
   hoverStrength |-> 0, mouseInfluence |-> 0, hoverRepulsion |-> 0, respawnRate |-> 0]
ZeroFiberUniforms ==
  [maxDistance |-> 0, springStrength |-> 0, springDamping |-> 0, deltaTime |-> 0]

\* initializeParticleData draws every particle at random; two layouts on the x axis
\* are explored, both inside the radius-5 sphere: spacing 0, 1, 3, 5, 5, ... and
\* coincident pairs 0, 0, 1, 1, ...; velocities are the draw (0.5 - 0.5) * 0.1 = 0
layoutPosition(layout, i) ==
  IF layout = 0 THEN <<Min((i * (i + 1)) \div 2, 5) * Scale, 0, 0>>
  ELSE <<(i \div 2) * Scale, 0, 0>>
\* life = 1.0 + Math.random() * 2.0: 1.0 for even and 2.0 for odd indices
layoutLife(i) == (1 + (i % 2)) * LifeOne
initialParticle(layout, i) ==
  [position |-> layoutPosition(layout, i),
   velocity |-> Zero3,
   life |-> layoutLife(i),
   color |-> SlowColor,
   targetPos |-> layoutPosition(layout, i)]

\* createGLBPoints: point i of shape s
targetPoint(shape, i) == <<(i + 1) * Scale, shape * Scale, 0>>

\* ------------------------------------------------------------ state
VARIABLES
  started,        \* gsapScript.onload has run and the frame loop is going
  useWebGPU,      \* let useWebGPU
  webgpuSystem,   \* let webgpuSystem: [created, particleCount, fibersEnabled]
  controlState,   \* the host parameter snapshot
  time,           \* let time (ticks)
  frame,          \* number of animate() calls so far
  particles,      \* buffers.particles
  fibers,         \* buffers.fibers
  uniforms,       \* buffers.uniforms
  fiberUniforms,  \* buffers.fiberUniforms
  targets,        \* buffers.targets
  supplied,       \* history: the array last passed to updateTargets
  queue,          \* device.queue: commands not yet executed
  gpu,            \* the submission being executed
  readbacks,      \* syncWebGPUParticles calls awaiting readParticleData
  mirror,         \* let particles: the THREE.Points object, its position and color
                  \* attribute arrays and the lengths of its userData.targets
  scene,          \* the THREE.Points objects that are in the scene
  loads,          \* updateParticleCount calls awaiting their target loads
  morphRunning,   \* animateMorphProgress has a frame callback pending
  shapeIndex,     \* let shapeIndex: the shape the last morph was requested to
  tweens,         \* the position tweens whose frame callbacks are pending
  events,         \* number of control panel events so far
  simFrame,       \* history: frame whose particle pass last stored each particle
  uniformsFrame,  \* history: frame whose updateUniforms last wrote buffers.uniforms
  last            \* history: the last shader store or host step, for the properties

vars == <<started, useWebGPU, webgpuSystem, controlState, time, frame, particles,
          fibers, uniforms, uniformsFrame, fiberUniforms, targets, supplied, queue, gpu,
          readbacks,
          mirror, scene, loads, morphRunning, shapeIndex, tweens, events, simFrame,
          last>>

hostVars == <<started, useWebGPU, webgpuSystem, controlState, time, frame, mirror,
              scene, loads, morphRunning, shapeIndex, tweens, events>>
gpuStores == <<particles, fibers, uniforms, uniformsFrame, fiberUniforms, targets,
               supplied>>

NoLast == [kind |-> "none"]
\* an array argument that is missing (undefined or null)
NoArray == [present |-> FALSE, values |-> << >>]
\* a staging buffer before mapAsync resolves
Unmapped == [i \in ParticleIds |-> ZeroParticle]
NoCopies == [fiber |-> ZeroFiber, startParticle |-> ZeroParticle,
             endParticle |-> ZeroParticle]
IdleGpu ==
  [stage |-> "idle", frame |-> 0, pending |-> {}, fibersOn |-> FALSE,
   pc |-> [k \in FiberIds |-> "done"], copies |-> [k \in FiberIds |-> NoCopies]]

newMirror(n, shape) ==
  [n |-> n,
   id |-> 0,
   userTargets |-> << >>,
   position |-> [i \in 0 .. (n - 1) |-> targetPoint(shape, i)],
   color |-> [i \in 0 .. (n - 1) |-> FastColor]]

Init ==
  /\ started = FALSE
  /\ useWebGPU = FALSE
  /\ webgpuSystem = [created |-> FALSE, particleCount |-> 0, fibersEnabled |-> FALSE]
  /\ controlState = controlStateInit
  /\ time = 0
  /\ frame = 0
  /\ particles = [i \in ParticleIds |-> ZeroParticle]
  /\ fibers = [k \in FiberIds |-> ZeroFiber]
  /\ uniforms = ZeroUniforms
  /\ fiberUniforms = ZeroFiberUniforms
  /\ targets = [i \in ParticleIds |-> Zero3]
  /\ supplied = NoArray
  /\ queue = <<>>
  /\ gpu = IdleGpu
  /\ readbacks = {}
  /\ mirror = newMirror(controlStateInit.particleCount, 0)
  /\ morphRunning = FALSE
  /\ shapeIndex = 0
  /\ tweens = << >>
  /\ scene = {0}
  /\ loads = {}
  /\ events = 0
  /\ simFrame = [i \in ParticleIds |-> 0]
  /\ uniformsFrame = 0
  /\ last = NoLast

\* The device queue is first-in first-out and the host reads nothing of the GPU
\* except a mapped readback, so the stores a command leaves do not depend on when
\* the host appended the commands behind it: host steps are taken when the queue
\* has been drained.  A mapped readback is still resolved at any later host step.
hostTurn == gpu.stage = "idle" /\ queue = << >>

\* ------------------------------------------------------------ startup
\* initializeParticleData: particleData written to buffers.particles
initialParticles(layout) ==
  [i \in ParticleIds |-> initialParticle(layout, i)]

\* gsapScript.onload: initWebGPU, initializeTargets, initializeControlPanel, animate.
\* outcome: "unsupported" (no navigator.gpu, no adapter, or requestDevice throws),
\* "throws" (initialize throws after the system was constructed), "ok".
\* initializeTargets: the position array is overwritten with targets[0]
initializeTargets(m) ==
  [m EXCEPT !.position = [i \in 0 .. (m.n - 1) |-> targetPoint(0, i)],
            !.userTargets = [k \in 1 .. NumShapes |-> m.n]]

onload(outcome, layout) ==
  /\ ~started
  /\ started' = TRUE
  /\ useWebGPU' = (outcome = "ok")
  /\ webgpuSystem' =
       IF outcome = "unsupported" THEN webgpuSystem
       ELSE [created |-> TRUE, particleCount |-> DefaultCount, fibersEnabled |-> FALSE]
  /\ particles' = IF outcome = "ok" THEN initialParticles(layout) ELSE particles
  /\ mirror' = initializeTargets(mirror)
  /\ last' = NoLast
  /\ UNCHANGED <<controlState, time, frame, fibers, uniforms, uniformsFrame, fiberUniforms, targets,
                 supplied,
                 queue, gpu, readbacks, morphRunning, shapeIndex, tweens, scene, loads, events,
                 simFrame>>

\* ------------------------------------------------------------ CPU fallback
\* applyHoverEffects, one particle: the position and the color it leaves
hoverInfluence(position, params) ==
  LET mouse3D == <<params.mousePos[1] * 10, params.mousePos[2] * 10, 0>>
      distance == Length(VSub(position, mouse3D))
  IN IF distance < params.hoverRadius
     THEN Quot(Mul(Scale - Quot(distance * Scale, params.hoverRadius),
                   params.hoverStrength), 10)
     ELSE 0
hoverPosition(position, params) ==
  LET mouse3D == <<params.mousePos[1] * 10, params.mousePos[2] * 10, 0>>
      diff == VSub(position, mouse3D)
      distance == Length(diff)
      direction == IF distance = 0 THEN Zero3 ELSE VDivLen(diff, distance)
      influence == hoverInfluence(position, params)
  IN IF distance < params.hoverRadius
     THEN IF params.hoverRepulsion
          THEN VAdd(position, VScale(direction, influence))
          ELSE VSub(position, VScale(direction, influence))
     ELSE position
hoverColor(color, position, params) ==
  LET mouse3D == <<params.mousePos[1] * 10, params.mousePos[2] * 10, 0>>
      distance == Length(VSub(position, mouse3D))
      colorIntensity == hoverInfluence(position, params) * 2
  IN IF distance < params.hoverRadius
     THEN <<Min(Scale, color[1] + colorIntensity),
            Min(Scale, color[2] + colorIntensity \div 2),
            Min(Scale, color[3] + colorIntensity)>>
     ELSE color
applyHoverEffects(m, params) ==
  [m EXCEPT
     !.position = [i \in 0 .. (m.n - 1) |-> hoverPosition(m.position[i], params)],
     !.color = [i \in 0 .. (m.n - 1) |-> hoverColor(m.color[i], m.position[i], params)]]

\* ------------------------------------------------------------ the frame
\* compute(): the two passes encoded into one command buffer and submitted
\* a compute() that encodes the fiber pass whatever fibersEnabled is
ComputeCommandFibersAlways(sys, k) ==
  [op |-> "compute", frame |-> k, particleCount |-> sys.particleCount,
   fibers |-> TRUE]
computeCommand(sys, k) ==
  [op |-> "compute", frame |-> k, particleCount |-> sys.particleCount,
   fibers |-> sys.fibersEnabled]

\* a frame that submits compute() before it writes the uniforms
FrameCommandsComputeFirst(sys, t, dt, params, k) ==
  << computeCommand(sys, k),
     [op |-> "writeUniforms", frame |-> k,
      data |-> uniformData(t, dt, sys.particleCount, params)],
     [op |-> "writeFiberUniforms", frame |-> k, data |-> fiberUniformData(dt, params)] >>

\* updateUniforms(time, dt, controlState); compute(): what a frame puts on the queue
frameCommands(sys, t, dt, params, k) ==
  << [op |-> "writeUniforms", frame |-> k,
      data |-> uniformData(t, dt, sys.particleCount, params)],
     [op |-> "writeFiberUniforms", frame |-> k, data |-> fiberUniformData(dt, params)],
     computeCommand(sys, k) >>

\* syncWebGPUParticles -> readParticleData: copyBufferToBuffer into a staging buffer
readbackCommands(issue, id) ==
  IF issue THEN << [op |-> "copy", id |-> id] >> ELSE << >>

\* a frame that syncs whether or not a morph is in progress
IssuesReadbackAlways(params) == TRUE
\* if (controlState.morphProgress > 0) syncWebGPUParticles()
issuesReadback(params) == JsPositive(params.morphProgress)

\* a frame that takes the GPU path whenever a system object exists
GpuSystemExists == webgpuSystem.created
\* animate: if (useWebGPU && webgpuSystem)
gpuActive == useWebGPU /\ webgpuSystem.created

\* function animate(), with dt = clock.getDelta(): 0 on the first call, the time
\* since the previous frame afterwards
animateFrame(dt) ==
  /\ hostTurn
  /\ IF frame = 0 THEN dt = 0 ELSE dt \in DtValues
  /\ frame' = frame + 1
  /\ time' = time + dt
  /\ IF gpuActive
     THEN LET issue == issuesReadback(controlState)
              cmds == frameCommands(webgpuSystem, time', dt, controlState, frame')
                        \o readbackCommands(issue, frame')
          IN /\ issue => Cardinality(readbacks) < MaxReadbacks
             /\ queue' = queue \o cmds
             /\ readbacks' = IF issue
                             THEN readbacks \cup {[id |-> frame', mapped |-> FALSE,
                                                   data |-> Unmapped,
                                                   progress |-> controlState.morphProgress]}
                             ELSE readbacks
     ELSE UNCHANGED <<queue, readbacks>>
  /\ mirror' = IF ~useWebGPU /\ controlState.hoverEnabled
               THEN applyHoverEffects(mirror, controlState)
               ELSE mirror
  /\ last' = [kind |-> "frame", frame |-> frame',
              issued |-> (gpuActive
                          /\ issuesReadback(controlState))]
  /\ UNCHANGED <<started, useWebGPU, webgpuSystem, particles, fibers, uniforms,
                 uniformsFrame, fiberUniforms, targets, supplied, gpu, morphRunning,
                 simFrame>>

\* a frame of the loop that gsapScript.onload starts
animate(dt) ==
  /\ started
  /\ frame < MaxFrames
  /\ animateFrame(dt)
  /\ UNCHANGED <<controlState, shapeIndex, tweens, scene, loads, events>>

\* ------------------------------------------------------------ the GPU queue
\* queue.writeBuffer(...) reaching the head of the queue
gpuWrite ==
  /\ gpu.stage = "idle"
  /\ queue /= << >>
  /\ LET cmd == Head(queue)
     IN /\ cmd.op \in {"writeUniforms", "writeFiberUniforms", "writeFibers",
                      "writeTargets", "writeParticles"}
        /\ uniforms' = IF cmd.op = "writeUniforms" THEN cmd.data ELSE uniforms
        /\ uniformsFrame' = IF cmd.op = "writeUniforms" THEN cmd.frame
                            ELSE uniformsFrame
        /\ fiberUniforms' = IF cmd.op = "writeFiberUniforms" THEN cmd.data
                            ELSE fiberUniforms
        /\ fibers' = IF cmd.op = "writeFibers" THEN cmd.data ELSE fibers
        /\ targets' = IF cmd.op = "writeTargets"
                      THEN [i \in ParticleIds |->
                              IF i < Len(cmd.data) THEN cmd.data[i + 1] ELSE targets[i]]
                      ELSE targets
        /\ particles' = IF cmd.op = "writeParticles"
                        THEN [i \in ParticleIds |->
                                IF i < Len(cmd.data) THEN cmd.data[i + 1]
                                ELSE particles[i]]
                        ELSE particles
  /\ queue' = Tail(queue)
  /\ last' = NoLast
  /\ UNCHANGED <<hostVars, supplied, gpu, readbacks, simFrame>>

\* the invocations of the particle pass that pass
\* if (index >= u32(uniforms.particleCount)) return
particlePending(cmd, u) ==
  {i \in particleInvocations(cmd.particleCount) : i < u.particleCount}

\* a submitted command buffer reaching the head of the queue: the particle pass begins
gpuBeginCompute ==
  /\ gpu.stage = "idle"
  /\ queue /= << >>
  /\ Head(queue).op = "compute"
  /\ gpu' = [IdleGpu EXCEPT !.stage = "particlePass",
                            !.frame = Head(queue).frame,
                            !.pending = particlePending(Head(queue), uniforms),
                            !.fibersOn = Head(queue).fibers]
  /\ queue' = Tail(queue)
  /\ last' = NoLast
  /\ UNCHANGED <<hostVars, gpuStores, readbacks, simFrame>>

\* one invocation of particleComputeShader main with index inside the store.  An
\* invocation reads and writes particles[index] alone, so invocations of distinct
\* in-range indices commute and are taken in index order.
particleInvocation(i) ==
  /\ gpu.stage = "particlePass"
  /\ i \in gpu.pending
  /\ i \in ParticleIds
  /\ \A h \in gpu.pending \cap ParticleIds : i <= h
  /\ particles' = [particles EXCEPT
                     ![i] = particleMain(particles[i], uniforms, targets[i], TRUE)]
  /\ gpu' = [gpu EXCEPT !.pending = gpu.pending \ {i}]
  /\ simFrame' = [simFrame EXCEPT ![i] = gpu.frame]
  /\ last' = [kind |-> "particle", index |-> i, before |-> particles[i],
              uniforms |-> uniforms, morphTarget |-> targets[i], hasTarget |-> TRUE]
  /\ UNCHANGED <<hostVars, fibers, uniforms, uniformsFrame, fiberUniforms, targets, supplied,
                 queue, readbacks>>

\* one invocation with index at or beyond the store (particleCount was raised above
\* the allocated capacity): the access is out of bounds, which the device either
\* drops (j = -1) or redirects to an element j inside the binding
particleInvocationOutOfBounds(i, j) ==
  /\ gpu.stage = "particlePass"
  /\ i \in gpu.pending
  /\ i \notin ParticleIds
  /\ j \in ParticleIds \cup {-1}
  /\ particles' = IF j = -1 THEN particles
                  ELSE [particles EXCEPT
                          ![j] = particleMain(particles[j], uniforms, Zero3, FALSE)]
  /\ gpu' = [gpu EXCEPT !.pending = gpu.pending \ {i}]
  /\ simFrame' = IF j = -1 THEN simFrame ELSE [simFrame EXCEPT ![j] = gpu.frame]
  /\ last' = IF j = -1 THEN NoLast
             ELSE [kind |-> "particle", index |-> j, before |-> particles[j],
                   uniforms |-> uniforms, morphTarget |-> Zero3, hasTarget |-> FALSE]
  /\ UNCHANGED <<hostVars, fibers, uniforms, uniformsFrame, fiberUniforms, targets, supplied,
                 queue, readbacks>>

\* particlePass.end(); if (this.fibersEnabled) the fiber pass begins, over
\* Math.ceil(this.maxFibers / 64) workgroups, each index below arrayLength(&fibers)
gpuEndParticlePass ==
  /\ gpu.stage = "particlePass"
  /\ gpu.pending = {}
  /\ gpu' = IF gpu.fibersOn
            THEN [gpu EXCEPT !.stage = "fiberPass", !.pc = [k \in FiberIds |-> "load"]]
            ELSE IdleGpu
  /\ last' = NoLast
  /\ UNCHANGED <<hostVars, gpuStores, queue, readbacks, simFrame>>

\* fiberComputeShader main, index k: var fiber = fibers[index]; the inactive and the
\* bounds check; var startParticle = particles[startIndex]
fiberLoadStart(k) ==
  /\ gpu.stage = "fiberPass"
  /\ gpu.pc[k] = "load"
  /\ LET fiber == fibers[k]
     IN IF fiber.isActive * 2 < 1 \/ fiber.start \notin ParticleIds
           \/ fiber.end \notin ParticleIds
        THEN gpu' = [gpu EXCEPT !.pc[k] = "done"]
        ELSE gpu' = [gpu EXCEPT !.pc[k] = "loadEnd",
                                !.copies[k] = [fiber |-> fiber,
                                               startParticle |-> particles[fiber.start],
                                               endParticle |-> ZeroParticle]]
  /\ last' = [kind |-> "fiberLoad", index |-> k]
  /\ UNCHANGED <<hostVars, gpuStores, queue, readbacks, simFrame>>

\* var endParticle = particles[endIndex]; the stretch test (fibers[index] = fiber on
\* a break) and the zero-distance test
fiberLoadEnd(k) ==
  /\ gpu.stage = "fiberPass"
  /\ gpu.pc[k] = "loadEnd"
  /\ LET c == [gpu.copies[k] EXCEPT !.endParticle = particles[gpu.copies[k].fiber.end]]
         outcome == fiberOutcome(c.fiber, c.startParticle, c.endParticle, fiberUniforms)
     IN /\ gpu' = IF outcome = "apply"
                  THEN [gpu EXCEPT !.pc[k] = "storeStart", !.copies[k] = c]
                  ELSE [gpu EXCEPT !.pc[k] = "done", !.copies[k] = NoCopies]
        /\ fibers' = IF outcome = "break"
                     THEN [fibers EXCEPT ![k] = fiberBroken(c.fiber)]
                     ELSE fibers
        /\ last' = [kind |-> "fiberTest", index |-> k, outcome |-> outcome,
                    copies |-> c]
  /\ UNCHANGED <<hostVars, particles, uniforms, uniformsFrame, fiberUniforms, targets, supplied,
                 queue,
                 readbacks, simFrame>>

\* particles[startIndex] = startParticle
fiberStoreStart(k) ==
  /\ gpu.stage = "fiberPass"
  /\ gpu.pc[k] = "storeStart"
  /\ LET c == gpu.copies[k]
     IN particles' = [particles EXCEPT ![c.fiber.start] =
          fiberStartStored(c.fiber, c.startParticle, c.endParticle, fiberUniforms)]
  /\ gpu' = [gpu EXCEPT !.pc[k] = "storeEnd"]
  /\ last' = [kind |-> "fiberStoreStart", index |-> k, copies |-> gpu.copies[k],
              overwrote |-> particles[gpu.copies[k].fiber.start]]
  /\ UNCHANGED <<hostVars, fibers, uniforms, uniformsFrame, fiberUniforms, targets, supplied,
                 queue, readbacks,
                 simFrame>>

\* particles[endIndex] = endParticle; fibers[index] = fiber
fiberStoreEnd(k) ==
  /\ gpu.stage = "fiberPass"
  /\ gpu.pc[k] = "storeEnd"
  /\ LET c == gpu.copies[k]
     IN /\ particles' = [particles EXCEPT ![c.fiber.end] =
             fiberEndStored(c.fiber, c.startParticle, c.endParticle, fiberUniforms)]
        /\ fibers' = [fibers EXCEPT ![k] =
             fiberStored(c.fiber, c.startParticle, c.endParticle, fiberUniforms)]
        /\ last' = [kind |-> "fiberStore", index |-> k, copies |-> c,
                    overwrote |-> particles[c.fiber.end]]
  /\ gpu' = [gpu EXCEPT !.pc[k] = "done", !.copies[k] = NoCopies]
  /\ UNCHANGED <<hostVars, uniforms, uniformsFrame, fiberUniforms, targets, supplied,
                 queue, readbacks, simFrame>>

\* fiberPass.end(): every invocation has returned
gpuEndFiberPass ==
  /\ gpu.stage = "fiberPass"
  /\ \A k \in FiberIds : gpu.pc[k] = "done"
  /\ gpu' = IdleGpu
  /\ last' = NoLast
  /\ UNCHANGED <<hostVars, gpuStores, queue, readbacks, simFrame>>

\* readParticleData: copyBufferToBuffer executes and mapAsync resolves
gpuCopy ==
  /\ gpu.stage = "idle"
  /\ queue /= << >>
  /\ Head(queue).op = "copy"
  /\ readbacks' = {IF r.id = Head(queue).id
                   THEN [r EXCEPT !.mapped = TRUE, !.data = particles] ELSE r
                   : r \in readbacks}
  /\ queue' = Tail(queue)
  /\ last' = NoLast
  /\ UNCHANGED <<hostVars, gpuStores, gpu, simFrame>>

\* syncWebGPUParticles after the await: particleData copied into the geometry
syncedMirror(m, data) ==
  [m EXCEPT
     !.position = [i \in 0 .. (m.n - 1) |->
                     IF i \in ParticleIds THEN data[i].position ELSE m.position[i]],
     !.color = [i \in 0 .. (m.n - 1) |->
                  IF i \in ParticleIds THEN data[i].color ELSE m.color[i]]]

resolveReadback(r) ==
  /\ hostTurn
  /\ r \in readbacks
  /\ r.mapped
  /\ mirror' = syncedMirror(mirror, r.data)
  /\ readbacks' = readbacks \ {r}
  /\ last' = [kind |-> "sync", id |-> r.id]
  /\ UNCHANGED <<started, useWebGPU, webgpuSystem, controlState, time, frame,
                 morphRunning, shapeIndex, tweens, scene, loads, events, gpuStores, queue, gpu, simFrame>>

\* ------------------------------------------------------------ fibers on the host
\* a pairing loop whose inner index starts at i instead of i + 1
FiberPairsWithSelf(particleCount) ==
  {pr \in (0 .. (FiberPool - 1)) \X (0 .. (FiberPool - 1)) :
     pr[1] <= pr[2] /\ pr[2] < Min(particleCount, FiberPool)}
\* initializeFibers: the pairs (i, j), i < j, among the first
\* Math.min(this.particleCount, 1000) particles, in loop order
fiberPairs(particleCount) ==
  {pr \in (0 .. (FiberPool - 1)) \X (0 .. (FiberPool - 1)) :
     pr[1] < pr[2] /\ pr[2] < Min(particleCount, FiberPool)}
pairRank(pr) == pr[1] * FiberPool + pr[2]
\* the k-th chosen pair in loop order
nthPair(chosen, k) ==
  CHOOSE pr \in chosen : Cardinality({q \in chosen : pairRank(q) < pairRank(pr)}) = k
\* fiberData for the pairs that Math.random() < 0.01 picked before maxFibers was hit
fiberData(chosen) ==
  [k \in FiberIds |->
     IF k < Cardinality(chosen)
     THEN [start |-> nthPair(chosen, k)[1], end |-> nthPair(chosen, k)[2],
           strength |-> 50, length |-> 100, isActive |-> 1]
     ELSE ZeroFiber]
fiberChoices(particleCount) ==
  {c \in SUBSET fiberPairs(particleCount) : Cardinality(c) <= MaxFibers}

\* enableFibers(enabled): the system and the commands it queues
\* (initializeFibers' writeBuffer when enabled)
enableFibers(sys, enabled) == [sys EXCEPT !.fibersEnabled = enabled]
enableFibersCommands(enabled, chosen) ==
  IF enabled THEN << [op |-> "writeFibers", data |-> fiberData(chosen)] >> ELSE << >>

\* setParticleCount(count)
setParticleCount(sys, count) ==
  IF count /= sys.particleCount
  THEN [sys EXCEPT !.particleCount = clampCount(count)]
  ELSE sys

\* updateParticleCount(newCount) up to its await: the old object leaves the scene
\* and a new one of newCount points, positions zero and no targets attached, takes
\* its place in the scene and in the variable particles
createParticles(newCount, id) ==
  [n |-> newCount,
   id |-> id,
   userTargets |-> << >>,
   position |-> [i \in 0 .. (newCount - 1) |-> Zero3],
   color |-> [i \in 0 .. (newCount - 1) |-> FastColor]]

\* updateParticleCount after targets = await Promise.all(loadPromises), the arrays
\* having load.count points each: particles.userData.targets = targets, and the
\* position array of particles is filled from targets[shapeIndex], repeated where
\* it is the shorter one.  particles is whatever object the variable holds by now.
attachTargets(m, load, shape) ==
  [m EXCEPT !.userTargets = [k \in 1 .. NumShapes |-> load.count],
            !.position = [i \in 0 .. (m.n - 1) |-> targetPoint(shape, i % load.count)]]

\* the continuation of one updateParticleCount call; the loads of two calls resolve
\* in either order
targetsLoaded(load) ==
  /\ hostTurn
  /\ load \in loads
  /\ loads' = loads \ {load}
  /\ mirror' = attachTargets(mirror, load, shapeIndex)
  /\ last' = [kind |-> "targetsLoaded", load |-> load]
  /\ UNCHANGED <<started, useWebGPU, webgpuSystem, controlState, time, frame, scene,
                 morphRunning, shapeIndex, tweens, events, gpuStores, queue, gpu,
                 readbacks, simFrame>>

\* toggles.fibersEnabled (click)
toggleFibers(chosen) ==
  /\ started
  /\ hostTurn
  /\ events < MaxEvents
  /\ events' = events + 1
  /\ LET enabled == ~controlState.fibersEnabled
         cmds == IF useWebGPU /\ webgpuSystem.created
                 THEN enableFibersCommands(enabled, chosen) ELSE << >>
     IN /\ controlState' = [controlState EXCEPT !.fibersEnabled = enabled]
        /\ chosen \in (IF cmds = << >> THEN {{}}
                       ELSE fiberChoices(webgpuSystem.particleCount))
        /\ webgpuSystem' = IF useWebGPU /\ webgpuSystem.created
                           THEN enableFibers(webgpuSystem, enabled) ELSE webgpuSystem
        /\ queue' = queue \o cmds
  /\ last' = [kind |-> "toggleFibers"]
  /\ UNCHANGED <<started, useWebGPU, time, frame, mirror, morphRunning, shapeIndex, tweens, scene, loads,
                 gpuStores, gpu, readbacks, simFrame>>

\* sliders.particleCount (input)
sliderParticleCount(v) ==
  /\ started
  /\ hostTurn
  /\ events < MaxEvents
  /\ events' = events + 1
  /\ v \in CountValues
  /\ controlState' = [controlState EXCEPT !.particleCount = v]
  /\ webgpuSystem' = IF useWebGPU /\ webgpuSystem.created
                     THEN setParticleCount(webgpuSystem, v) ELSE webgpuSystem
  /\ mirror' = createParticles(v, events')
  /\ scene' = (scene \ {mirror.id}) \cup {events'}
  /\ loads' = loads \cup {[id |-> events', count |-> v]}
  /\ last' = [kind |-> "sliderParticleCount"]
  /\ UNCHANGED <<started, useWebGPU, time, frame, morphRunning, shapeIndex, tweens,
                 gpuStores, queue, gpu, readbacks, simFrame>>

\* applyPreset(presetName, webgpuSystem, useWebGPU)
applyPreset(name, chosen) ==
  /\ started
  /\ hostTurn
  /\ events < MaxEvents
  /\ events' = events + 1
  /\ name \in PresetNames
  /\ LET preset == presets[name]
         onGpu == useWebGPU /\ webgpuSystem.created
         sys1 == setParticleCount(webgpuSystem, preset.particleCount)
         cmds == IF onGpu THEN enableFibersCommands(preset.fibersEnabled, chosen)
                 ELSE << >>
     IN /\ controlState' = [controlState EXCEPT
                              !.particleCount = preset.particleCount,
                              !.fibersEnabled = preset.fibersEnabled,
                              !.fiberStrength = preset.fiberStrength,
                              !.connectionDistance = preset.connectionDistance,
                              !.gravity = preset.gravity,
                              !.turbulence = preset.turbulence,
                              !.attraction = preset.attraction,
                              !.morphSpeed = preset.morphSpeed]
        /\ chosen \in (IF cmds = << >> THEN {{}} ELSE fiberChoices(sys1.particleCount))
        /\ webgpuSystem' = IF onGpu THEN enableFibers(sys1, preset.fibersEnabled)
                           ELSE webgpuSystem
        /\ queue' = queue \o cmds
        /\ mirror' = createParticles(preset.particleCount, events')
        /\ scene' = (scene \ {mirror.id}) \cup {events'}
        /\ loads' = loads \cup {[id |-> events', count |-> preset.particleCount]}
  /\ last' = [kind |-> "applyPreset"]
  /\ UNCHANGED <<started, useWebGPU, time, frame, morphRunning, shapeIndex, tweens,
                 gpuStores, gpu, readbacks, simFrame>>

\* animateMorphProgress(duration): the first animate() call, elapsed = 0.  It is the
\* only code that assigns controlState.morphProgress; its call in morph() is inside
\* the commented-out WebGPU branch, so it is taken here as an operation of the host.
animateMorphProgress ==
  /\ started
  /\ hostTurn
  /\ events < MaxEvents
  /\ events' = events + 1
  /\ ~morphRunning
  /\ morphRunning' = TRUE
  /\ controlState' = [controlState EXCEPT !.morphProgress = 0]
  /\ last' = [kind |-> "morphProgress"]
  /\ UNCHANGED <<started, useWebGPU, webgpuSystem, time, frame, mirror, shapeIndex, tweens, scene, loads,
                 gpuStores, queue, gpu, readbacks, simFrame>>

\* animateMorphProgress's frame callback: progress = Math.min(elapsed / duration, 1)
morphProgressFrame(progress) ==
  /\ morphRunning
  /\ hostTurn
  /\ UNCHANGED events
  /\ progress \in ProgressValues
  /\ progress >= controlState.morphProgress
  /\ controlState' = [controlState EXCEPT
                        !.morphProgress = IF progress < Scale THEN progress ELSE 0]
  /\ morphRunning' = (progress < Scale)
  /\ last' = [kind |-> "morphProgress"]
  /\ UNCHANGED <<started, useWebGPU, webgpuSystem, time, frame, mirror, shapeIndex, tweens, scene, loads,
                 gpuStores, queue, gpu, readbacks, simFrame>>

\* ------------------------------------------------------------ array uploads
\* the arrays a caller passes: none, one entry short of the store, the whole store;
\* morph targets (three floats each) of shape 1, particle records (fourteen floats
\* each) of layout 1
TargetArrays ==
  {NoArray} \cup {[present |-> TRUE, values |-> [i \in 1 .. k |-> targetPoint(1, i - 1)]] :
                    k \in {Capacity - 1, Capacity}}
ParticleArrays ==
  {NoArray} \cup {[present |-> TRUE,
                   values |-> [i \in 1 .. k |-> initialParticle(1, i - 1)]] :
                    k \in {Capacity - 1, Capacity}}

\* an upload that writes as many entries as the array has
UploadsWhatItIsGiven(sys, targetData) ==
  IF targetData.present /\ targetData.values /= << >>
  THEN << [op |-> "writeTargets", data |-> targetData.values] >>
  ELSE << >>

\* updateTargets(targetData): if (targetData && targetData.length >=
\* this.particleCount * 3) writeBuffer(buffers.targets, 0, targetData), else a warning
updateTargets(sys, targetData) ==
  IF targetData.present /\ Len(targetData.values) >= sys.particleCount
  THEN << [op |-> "writeTargets", data |-> targetData.values] >>
  ELSE << >>

\* updateParticles(particleData): the same test against this.particleCount * 14
updateParticles(sys, particleData) ==
  IF particleData.present /\ Len(particleData.values) >= sys.particleCount
  THEN << [op |-> "writeParticles", data |-> particleData.values] >>
  ELSE << >>

\* a call of webgpuSystem.updateTargets.  Its one call site, in morph(), is inside
\* the commented-out WebGPU branch, so it is taken here as an operation of the host.
updateTargetsCall(targetData) ==
  /\ started
  /\ hostTurn
  /\ gpuActive
  /\ events < MaxEvents
  /\ events' = events + 1
  /\ targetData \in TargetArrays
  /\ queue' = queue \o updateTargets(webgpuSystem, targetData)
  /\ supplied' = targetData
  /\ last' = [kind |-> "updateTargets", data |-> targetData]
  /\ UNCHANGED <<started, useWebGPU, webgpuSystem, controlState, time, frame, mirror,
                 morphRunning, shapeIndex, tweens, scene, loads, particles, fibers, uniforms,
                 uniformsFrame, fiberUniforms, targets, gpu, readbacks, simFrame>>

\* a call of webgpuSystem.updateParticles, an operation of the host as well
updateParticlesCall(particleData) ==
  /\ started
  /\ hostTurn
  /\ gpuActive
  /\ events < MaxEvents
  /\ events' = events + 1
  /\ particleData \in ParticleArrays
  /\ queue' = queue \o updateParticles(webgpuSystem, particleData)
  /\ last' = [kind |-> "updateParticles", data |-> particleData]
  /\ UNCHANGED <<started, useWebGPU, webgpuSystem, controlState, time, frame, mirror,
                 morphRunning, shapeIndex, tweens, scene, loads, gpuStores, gpu, readbacks, simFrame>>

\* ------------------------------------------------------------ morphing
\* the time between two animation frames in which tween callbacks run, in ticks
StepValues == {TicksPerSec}
\* sliders.morphSpeed: parseFloat(v)
MorphSpeedValues == {Scale, 4 * Scale}

\* morph: const duration = 4 / controlState.morphSpeed, in ticks
morphDuration(params) == Quot(4 * Scale * TicksPerSec, params.morphSpeed)

\* manualMorph: progress = Math.min(elapsed / duration, 1)
tweenProgress(tween) == Min(Quot(tween.elapsed * Scale, tween.duration), Scale)
\* an easing that keeps the first branch of the curve over the whole range
EasedProgressFirstBranch(progress) == Quot(2 * progress * progress, Scale)
\* manualMorph: 2 p p below one half, 1 - (-2 p + 2)^2 / 2 from it on; gsap.to is
\* given the same curve by ease: 'power2.inOut'
easedProgress(progress) ==
  IF progress * 2 < Scale
  THEN Quot(2 * progress * progress, Scale)
  ELSE Scale - Quot((2 * Scale - 2 * progress) * (2 * Scale - 2 * progress), 2 * Scale)
\* pos[i] = startPositions[i] + (dest[i] - startPositions[i]) * easedProgress
tweenPositions(tween, n) ==
  [i \in 0 .. (n - 1) |->
     VAdd(tween.startPositions[i],
          VScale(VSub(targetPoint(tween.dest, i), tween.startPositions[i]),
                 easedProgress(tweenProgress(tween))))]

\* gsap.killTweensOf(pos): the tweens GSAP made on pos are removed; the frame callback
\* of a manualMorph is no GSAP tween and stays
killTweensOf(tw) == SelectSeq(tw, LAMBDA t : t.path /= "gsap")

\* morph(toIndex), from "if (typeof gsap !== 'undefined')" on: gsap is defined once
\* gsapScript has loaded.  manualMorph's first callback runs at once with elapsed 0
\* and rewrites the start positions, which changes nothing.
morph(tw, pos, toIndex, params, gsapDefined) ==
  LET tween == [path |-> IF gsapDefined THEN "gsap" ELSE "manual",
                startPositions |-> pos, dest |-> toIndex, elapsed |-> 0,
                duration |-> morphDuration(params)]
  IN IF gsapDefined THEN Append(killTweensOf(tw), tween) ELSE Append(tw, tween)

\* morphButton click with targets loaded: shapeIndex advances, morph(shapeIndex) sets
\* the tween up and ends with a call of animate()
morphClick(dt) ==
  /\ events < MaxMorphEvents
  /\ events' = events + 1
  /\ shapeIndex' = (shapeIndex + 1) % NumShapes
  /\ tweens' = morph(tweens, mirror.position, shapeIndex', controlState, started)
  /\ animateFrame(dt)
  /\ UNCHANGED <<controlState, scene, loads>>

\* sliders.morphSpeed (input)
sliderMorphSpeed(v) ==
  /\ hostTurn
  /\ events < MaxMorphEvents
  /\ events' = events + 1
  /\ v \in MorphSpeedValues
  /\ controlState' = [controlState EXCEPT !.morphSpeed = v]
  /\ last' = [kind |-> "sliderMorphSpeed"]
  /\ UNCHANGED <<started, useWebGPU, webgpuSystem, time, frame, mirror, morphRunning,
                 shapeIndex, tweens, scene, loads, gpuStores, queue, gpu, readbacks, simFrame>>

\* one animation frame of the tweens: the pending callbacks run in the order they
\* were registered, each writes every position from its own start and destination,
\* and a tween whose progress has reached 1 asks for no further frame
tweenFrame(step) ==
  /\ hostTurn
  /\ tweens /= << >>
  /\ step \in StepValues
  /\ LET advanced == [k \in 1 .. Len(tweens) |->
                        [tweens[k] EXCEPT !.elapsed = @ + step]]
     IN /\ mirror' = [mirror EXCEPT
                        !.position = tweenPositions(advanced[Len(advanced)], mirror.n)]
        /\ tweens' = SelectSeq(advanced, LAMBDA t : tweenProgress(t) < Scale)
        /\ last' = [kind |-> "tween",
                    wrote |-> [k \in 1 .. Len(advanced) |-> advanced[k].dest]]
  /\ UNCHANGED <<started, useWebGPU, webgpuSystem, controlState, time, frame, scene,
                 loads, morphRunning, shapeIndex, events, gpuStores, queue, gpu,
                 readbacks, simFrame>>

\* ------------------------------------------------------------ a failing frame
\* toggles.hoverEnabled (click)
toggleHover ==
  /\ hostTurn
  /\ events < MaxEvents
  /\ events' = events + 1
  /\ controlState' = [controlState EXCEPT !.hoverEnabled = ~controlState.hoverEnabled]
  /\ last' = [kind |-> "toggleHover"]
  /\ UNCHANGED <<started, useWebGPU, webgpuSystem, time, frame, mirror, morphRunning,
                 shapeIndex, tweens, scene, loads, gpuStores, queue, gpu, readbacks, simFrame>>

\* the statements of animate() that act on the state or may throw, in source order
animateSteps ==
  << "requestAnimationFrame", "updateUniforms", "compute", "updateFiberConnections",
     "syncWebGPUParticles", "updateInteractiveFibers", "applyHoverEffects",
     "applySparkle", "controls.update", "composer.render" >>
\* statement a comes before statement b in animate()
runsBefore(a, b) ==
  \E j, k \in 1 .. Len(animateSteps) :
    animateSteps[j] = a /\ animateSteps[k] = b /\ j < k

\* a loop that asks for the next frame after it has rendered
ScheduledAfterRender(step) == runsBefore("composer.render", step)
\* whether the next frame has been requested when statement step throws
scheduledWhenThrown(step) == runsBefore("requestAnimationFrame", step)

\* a frame in which statement step throws: the statements before it have run, the
\* ones after it have not, and the loop goes on only if the next frame had been
\* requested by then
animateThrows(dt, step) ==
  /\ started
  /\ frame < MaxFrames
  /\ hostTurn
  /\ \/ step = "updateFiberConnections" /\ gpuActive /\ controlState.fibersEnabled
     \/ step = "updateInteractiveFibers" /\ controlState.fibersEnabled
     \/ step = "applyHoverEffects" /\ ~useWebGPU /\ controlState.hoverEnabled
     \/ step = "applySparkle"
  /\ IF frame = 0 THEN dt = 0 ELSE dt \in DtValues
  /\ frame' = frame + 1
  /\ time' = time + dt
  /\ IF gpuActive
     THEN LET issue == issuesReadback(controlState)
                         /\ runsBefore("syncWebGPUParticles", step)
              cmds == frameCommands(webgpuSystem, time', dt, controlState, frame')
                        \o readbackCommands(issue, frame')
          IN /\ issue => Cardinality(readbacks) < MaxReadbacks
             /\ queue' = queue \o cmds
             /\ readbacks' = IF issue
                             THEN readbacks \cup {[id |-> frame', mapped |-> FALSE,
                                                   data |-> Unmapped,
                                                   progress |-> controlState.morphProgress]}
                             ELSE readbacks
     ELSE UNCHANGED <<queue, readbacks>>
  /\ mirror' = IF ~useWebGPU /\ controlState.hoverEnabled
                  /\ runsBefore("applyHoverEffects", step)
               THEN applyHoverEffects(mirror, controlState)
               ELSE mirror
  /\ started' = scheduledWhenThrown(step)
  /\ last' = [kind |-> "thrown", step |-> step, frame |-> frame']
  /\ UNCHANGED <<useWebGPU, webgpuSystem, controlState, particles, fibers, uniforms,
                 uniformsFrame, fiberUniforms, targets, supplied, gpu, morphRunning,
                 shapeIndex, tweens, scene, loads, events, simFrame>>

\* syncWebGPUParticles when readParticleData rejects: the catch logs a warning and
\* the geometry keeps its arrays
rejectReadback(r) ==
  /\ hostTurn
  /\ r \in readbacks
  /\ readbacks' = readbacks \ {r}
  /\ last' = [kind |-> "syncFailed", id |-> r.id]
  /\ UNCHANGED <<started, useWebGPU, webgpuSystem, controlState, time, frame, mirror,
                 morphRunning, shapeIndex, tweens, scene, loads, events, gpuStores, queue, gpu, simFrame>>
\* ------------------------------------------------------------ specification
Next ==
  \/ \E outcome \in {"unsupported", "throws", "ok"}, layout \in {0, 1} :
       onload(outcome, layout)
  \/ \E dt \in DtValues \cup {0} : animate(dt)
  \/ gpuWrite
  \/ gpuBeginCompute
  \/ \E i \in particleInvocations(MaxCount) : particleInvocation(i)
  \/ \E i \in particleInvocations(MaxCount), j \in ParticleIds \cup {-1} :
       particleInvocationOutOfBounds(i, j)
  \/ gpuEndParticlePass
  \/ \E k \in FiberIds : fiberLoadStart(k)
  \/ \E k \in FiberIds : fiberLoadEnd(k)
  \/ \E k \in FiberIds : fiberStoreStart(k)
  \/ \E k \in FiberIds : fiberStoreEnd(k)
  \/ gpuEndFiberPass
  \/ gpuCopy
  \/ \E r \in readbacks : resolveReadback(r)
  \/ \E chosen \in fiberChoices(MaxCount) : toggleFibers(chosen)
  \/ \E v \in CountValues : sliderParticleCount(v)
  \/ \E name \in PresetNames, chosen \in fiberChoices(MaxCount) :
       applyPreset(name, chosen)
  \/ \E load \in loads : targetsLoaded(load)
  \/ animateMorphProgress
  \/ \E progress \in ProgressValues : morphProgressFrame(progress)

Spec == Init /\ [][Next]_vars

\* ------------------------------------------------------------ the fiber shader alone
\* fiberComputeShader main as a function of the stores: one fiber pass over drawn
\* particle, fiber and uniform stores
FiberPositions ==
  { [i \in ParticleIds |-> <<3 * Scale * (i % 2), 4 * Scale * (i \div 2), 0>>],
    [i \in ParticleIds |-> <<Scale * (i \div 2), 0, 0>>] }
FiberVelocities ==
  { [i \in ParticleIds |-> Zero3],
    [i \in ParticleIds |-> <<Scale * (i % 2), Scale * (i % 3), 0>>] }
FiberUniformValues ==
  { [maxDistance |-> 10 * Scale, springStrength |-> Scale, springDamping |-> 0,
     deltaTime |-> TicksPerSec],
    [maxDistance |-> 10 * Scale, springStrength |-> Scale, springDamping |-> Scale \div 2,
     deltaTime |-> 1],
    fiberUniformData(1, controlStateInit) }

InitFiber ==
  /\ started = TRUE
  /\ useWebGPU = TRUE
  /\ webgpuSystem = [created |-> TRUE, particleCount |-> DefaultCount,
                     fibersEnabled |-> TRUE]
  /\ controlState = controlStateInit
  /\ time = 0
  /\ frame = 1
  /\ \E pos \in FiberPositions, vel \in FiberVelocities :
       particles = [i \in ParticleIds |->
                      [initialParticle(0, i) EXCEPT !.position = pos[i],
                                                    !.velocity = vel[i]]]
  /\ \E chosen \in fiberChoices(DefaultCount) : fibers = fiberData(chosen)
  /\ uniforms = uniformData(0, 0, DefaultCount, controlStateInit)
  /\ uniformsFrame = 1
  /\ fiberUniforms \in FiberUniformValues
  /\ targets = [i \in ParticleIds |-> Zero3]
  /\ supplied = NoArray
  /\ queue = << >>
  /\ gpu = [IdleGpu EXCEPT !.stage = "fiberPass", !.frame = 1, !.fibersOn = TRUE,
                           !.pc = [k \in FiberIds |-> "load"]]
  /\ readbacks = {}
  /\ mirror = newMirror(controlStateInit.particleCount, 0)
  /\ morphRunning = FALSE
  /\ shapeIndex = 0
  /\ tweens = << >>
  /\ scene = {0}
  /\ loads = {}
  /\ events = 0
  /\ simFrame = [i \in ParticleIds |-> 1]
  /\ last = NoLast

NextFiber ==
  \/ \E k \in FiberIds : fiberLoadStart(k)
  \/ \E k \in FiberIds : fiberLoadEnd(k)
  \/ \E k \in FiberIds : fiberStoreStart(k)
  \/ \E k \in FiberIds : fiberStoreEnd(k)
  \/ gpuEndFiberPass

SpecFiber == InitFiber /\ [][NextFiber]_vars

\* ------------------------------------------------------------ the morph tweens
\* The page with its targets loaded, the events that start and advance position
\* tweens, and the frames of a system that keeps the fiber pass off.
NextMorph ==
  \/ \E outcome \in {"unsupported", "throws", "ok"}, layout \in {0, 1} :
       onload(outcome, layout)
  \/ \E dt \in DtValues \cup {0} : animate(dt)
  \/ gpuWrite
  \/ gpuBeginCompute
  \/ \E i \in particleInvocations(MaxCount) : particleInvocation(i)
  \/ gpuEndParticlePass
  \/ \E dt \in DtValues \cup {0} : morphClick(dt)
  \/ \E v \in MorphSpeedValues : sliderMorphSpeed(v)
  \/ \E step \in StepValues : tweenFrame(step)

SpecMorph == Init /\ [][NextMorph]_vars

\* ------------------------------------------------------------ the pointer term
\* The page after initialization and after the pointer controls were used: the
\* snapshot holds a pointer position, radius, strength, influence and mode, the
\* particles and the mirror lie at chosen distances from the pointer, and the frames
\* of the loop run on the GPU path or on the fallback.
RadiusValues == {0 - 2 * Scale, 0, 3 * Scale, 5 * Scale}
StrengthValues == {0, Scale}
InfluenceValues == {Scale \div 2, Scale}
PointerValues == {<<0, 0>>, <<Scale, Scale>>}
pointerLayout(i) ==
  CASE i = 0 -> <<150, 200, 0>>
    [] i = 1 -> <<3 * Scale, 0, 0>>
    [] i = 2 -> <<250, 3 * Scale, 0>>
    [] OTHER -> <<(i + 3) * Scale, 0, 0>>

InitPointer ==
  /\ started = TRUE
  /\ useWebGPU \in BOOLEAN
  /\ webgpuSystem = [created |-> useWebGPU, particleCount |-> DefaultCount,
                     fibersEnabled |-> FALSE]
  /\ \E pos \in PointerValues, radius \in RadiusValues, strength \in StrengthValues,
        influence \in InfluenceValues, repel \in BOOLEAN, enabled \in BOOLEAN :
       controlState = [controlStateInit EXCEPT !.mousePos = pos,
                                               !.hoverEnabled = enabled,
                                               !.hoverRadius = radius,
                                               !.hoverStrength = strength,
                                               !.mouseInfluence = influence,
                                               !.hoverRepulsion = repel]
  /\ time = 0
  /\ frame = 0
  /\ particles = IF useWebGPU
                 THEN [i \in ParticleIds |->
                         [initialParticle(0, i) EXCEPT !.position = pointerLayout(i),
                                                       !.targetPos = pointerLayout(i)]]
                 ELSE [i \in ParticleIds |-> ZeroParticle]
  /\ fibers = [k \in FiberIds |-> ZeroFiber]
  /\ uniforms = ZeroUniforms
  /\ uniformsFrame = 0
  /\ fiberUniforms = ZeroFiberUniforms
  /\ targets = [i \in ParticleIds |-> Zero3]
  /\ supplied = NoArray
  /\ queue = << >>
  /\ gpu = IdleGpu
  /\ readbacks = {}
  /\ mirror = [newMirror(controlStateInit.particleCount, 0) EXCEPT
                 !.position = [i \in 0 .. (controlStateInit.particleCount - 1) |->
                                 pointerLayout(i)]]
  /\ morphRunning = FALSE
  /\ shapeIndex = 0
  /\ tweens = << >>
  /\ scene = {0}
  /\ loads = {}
  /\ events = 0
  /\ simFrame = [i \in ParticleIds |-> 0]
  /\ last = NoLast

NextPointer ==
  \/ \E dt \in DtValues \cup {0} : animate(dt)
  \/ gpuWrite
  \/ gpuBeginCompute
  \/ \E i \in particleInvocations(MaxCount) : particleInvocation(i)
  \/ gpuEndParticlePass

SpecPointer == InitPointer /\ [][NextPointer]_vars

\* ------------------------------------------------------------ the array uploads
\* the frame loop with the morph progress and the two uploads as the host's events
NextTargets ==
  \/ \E outcome \in {"unsupported", "throws", "ok"}, layout \in {0, 1} :
       onload(outcome, layout)
  \/ \E dt \in DtValues \cup {0} : animate(dt)
  \/ gpuWrite
  \/ gpuBeginCompute
  \/ \E i \in ParticleIds : particleInvocation(i)
  \/ gpuEndParticlePass
  \/ gpuCopy
  \/ \E r \in readbacks : resolveReadback(r)
  \/ animateMorphProgress
  \/ \E progress \in ProgressValues : morphProgressFrame(progress)
  \/ \E targetData \in TargetArrays : updateTargetsCall(targetData)
  \/ \E particleData \in ParticleArrays : updateParticlesCall(particleData)

SpecTargets == Init /\ [][NextTargets]_vars

\* ------------------------------------------------------------ the failing frames
\* the frame loop with frames whose statements throw and readbacks that reject
NextFrames ==
  \/ \E outcome \in {"unsupported", "throws", "ok"}, layout \in {0, 1} :
       onload(outcome, layout)
  \/ \E dt \in DtValues \cup {0} : animate(dt)
  \/ \E dt \in DtValues \cup {0},
        step \in {"updateFiberConnections", "updateInteractiveFibers",
                  "applyHoverEffects", "applySparkle"} : animateThrows(dt, step)
  \/ gpuWrite
  \/ gpuBeginCompute
  \/ \E i \in ParticleIds : particleInvocation(i)
  \/ gpuEndParticlePass
  \/ gpuCopy
  \/ \E r \in readbacks : resolveReadback(r)
  \/ \E r \in readbacks : rejectReadback(r)
  \/ toggleHover
  \/ animateMorphProgress
  \/ \E progress \in ProgressValues : morphProgressFrame(progress)
SpecFrames == Init /\ [][NextFrames]_vars
\* ------------------------------------------------------------ properties
\* the fibers whose invocation holds copies of both endpoint particles
fibersLoaded == {k \in FiberIds : gpu.pc[k] \in {"storeStart", "storeEnd"}}

stepStored == particles[last.index]
stepDecremented == decrementedLife(last.before, last.uniforms)
stepRespawns == last.kind = "particle" /\ stepDecremented <= 0
stepAges == last.kind = "particle" /\ stepDecremented > 0
\* the particle as the respawn branch leaves it
stepRespawned ==
  LET np == respawnPosition(last.before, last.uniforms)
  IN [last.before EXCEPT !.position = np, !.velocity = Zero3, !.life = respawnLife(np)]

\* C2 as stated: a particle step in which life reaches <= 0 stores velocity (0,0,0)
\* and the respawn point, which lies within radius 5 of the origin
C2_RespawnReplacesStep ==
  stepRespawns =>
    /\ stepStored.velocity = Zero3
    /\ stepStored.position = respawnPosition(last.before, last.uniforms)
    /\ Length(stepStored.position) <= 5 * Scale

\* C3: life is re-seeded exactly in the steps whose decrement made it <= 0, to a
\* value in [1.0, 3.0), and the record stored in such a step is computed from the
\* respawn point and zero velocity, not from the old position and velocity; in every
\* other step the stored life is the decremented value.
C3_LifeReseed ==
  /\ stepRespawns =>
       /\ stepStored.life >= LifeOne
       /\ stepStored.life < 3 * LifeOne
       /\ stepStored = forcesAndIntegration(stepRespawned, last.uniforms,
                                            last.morphTarget, last.hasTarget)
  /\ stepAges => stepStored.life = stepDecremented

\* C3 witness: a respawn step has stored a particle that had moved before
C3_Witness ==
  /\ stepRespawns
  /\ last.before.position /= respawnPosition(last.before, last.uniforms)
  /\ simFrame[last.index] >= 2

\* C4 (as amended): a step without respawn lowers life by exactly deltaTime times the
\* respawnRate of the host parameter snapshot, so life strictly decreases in every
\* such step whose deltaTime is positive.
C4_LifeDecrement ==
  stepAges =>
    /\ stepStored.life
         = last.before.life - last.uniforms.deltaTime * controlState.respawnRate
    /\ last.uniforms.deltaTime > 0 => stepStored.life < last.before.life

\* C4 witness: life 2.0, respawnRate 0.2 and deltaTime 1/60 give 2.0 - 0.2/60
C4_Witness ==
  /\ stepAges
  /\ last.before.life = 2 * LifeOne
  /\ last.uniforms.deltaTime = 1
  /\ controlState.respawnRate = Scale \div 5
  /\ stepStored.life = 2 * LifeOne - Scale \div 5

\* C4 as stated: every step without respawn strictly lowers life
C4_Original == stepAges => stepStored.life < last.before.life

\* C5 as stated: a fiber that was active and has become inactive stays inactive in
\* every later step
C5_NoReactivation ==
  [][\A k \in FiberIds :
       (fibers[k].isActive = 0 /\ fibers[k].length > 0) => fibers'[k].isActive = 0]_vars

\* the step in which invocation k leaves the given position
fiberStep(k, pc) == gpu.stage = "fiberPass" /\ gpu.pc[k] = pc /\ gpu'.pc[k] /= pc
\* the separation of fiber k's endpoints in the store
separation(k) == currentDistance(particles[fibers[k].start], particles[fibers[k].end])

springForceOf(c) ==
  LET vecBetween == VSub(c.endParticle.position, c.startParticle.position)
      direction == VDivLen(vecBetween, Length(vecBetween))
      relativeVelocity == VSub(c.endParticle.velocity, c.startParticle.velocity)
  IN VAdd(VScale(direction,
                 Mul(Length(vecBetween) - c.fiber.length, fiberUniforms.springStrength)),
          VScale(direction,
                 Mul(Dot(relativeVelocity, direction), fiberUniforms.springDamping)))
springDeltaOf(c) == VDt(springForceOf(c), fiberUniforms.deltaTime)
\* particles at (0,0,0) and (3,0,0), restLength 1, springStrength 1, damping 0,
\* deltaTime 1, maxStretchDistance 10
springExample(c) ==
  /\ c.startParticle.position = Zero3
  /\ c.endParticle.position = <<3 * Scale, 0, 0>>
  /\ c.fiber.length = Scale
  /\ fiberUniforms = [maxDistance |-> 10 * Scale, springStrength |-> Scale,
                      springDamping |-> 0, deltaTime |-> TicksPerSec]

\* C7 (as amended): the invocation of an active fiber whose endpoint separation is
\* within maxStretchDistance and at least 0.0001 stores the start particle with the
\* claim's delta added to its velocity, the end particle with the same delta
\* subtracted (the sum of the two velocities it loaded is kept) and the fiber with
\* strength = |total force|; in the example the delta is +2 along x.
C7_SpringForce ==
  [][\A k \in FiberIds :
       LET c == gpu.copies[k]
       IN /\ (fiberStep(k, "loadEnd") /\ fibers[k].isActive = 1
                /\ separation(k) <= fiberUniforms.maxDistance
                /\ separation(k) * 100 >= 1)
             => gpu'.pc[k] = "storeStart"
          /\ fiberStep(k, "storeStart")
             => /\ particles' = [particles EXCEPT ![c.fiber.start] =
                      [c.startParticle EXCEPT
                         !.velocity = VAdd(c.startParticle.velocity, springDeltaOf(c))]]
                /\ springExample(c) => springDeltaOf(c) = <<2 * Scale, 0, 0>>
          /\ fiberStep(k, "storeEnd")
             => /\ particles' = [particles EXCEPT ![c.fiber.end] =
                      [c.endParticle EXCEPT
                         !.velocity = VSub(c.endParticle.velocity, springDeltaOf(c))]]
                /\ VAdd(VAdd(c.startParticle.velocity, springDeltaOf(c)),
                        particles'[c.fiber.end].velocity)
                     = VAdd(c.startParticle.velocity, c.endParticle.velocity)
                /\ fibers' = [fibers EXCEPT ![k] =
                      [c.fiber EXCEPT !.strength = Length(springForceOf(c))]]]_vars

\* C7 witness: the example's fiber has been applied, +2 along x to the start particle
\* and -2 along x to the end particle
C7_Witness ==
  /\ last.kind = "fiberStore"
  /\ springExample(last.copies)
  /\ last.copies.startParticle.velocity = Zero3
  /\ particles[last.copies.fiber.start].velocity = <<2 * Scale, 0, 0>>
  /\ particles[last.copies.fiber.end].velocity = <<-2 * Scale, 0, 0>>
  /\ fibers[last.index].strength = 2 * Scale

\* C7 as stated: the invocation of every active fiber within maxStretchDistance goes
\* on to store its delta and strength
C7_Original ==
  [][\A k \in FiberIds :
       (fiberStep(k, "loadEnd") /\ fibers[k].isActive = 1
          /\ separation(k) <= fiberUniforms.maxDistance)
       => gpu'.pc[k] = "storeStart"]_vars

\* the particle a store step has just written, the copy the invocation had loaded
\* of it, and the delta the invocation applied to it
storeStep == last.kind \in {"fiberStoreStart", "fiberStore"}
storeDelta ==
  deltaVelocity(last.copies.fiber, last.copies.startParticle, last.copies.endParticle,
                fiberUniforms)
storeTarget ==
  IF last.kind = "fiberStoreStart" THEN last.copies.fiber.start
  ELSE last.copies.fiber.end
storeLoaded ==
  IF last.kind = "fiberStoreStart" THEN last.copies.startParticle
  ELSE last.copies.endParticle

\* C8: a fiber invocation stores the whole particle record it loaded, with its own
\* delta applied, whatever the store holds by then: what another invocation stored
\* into the particle in between is not in the record.
C8_UnsynchronizedStore ==
  storeStep =>
    particles[storeTarget] =
      [storeLoaded EXCEPT !.velocity =
         IF last.kind = "fiberStoreStart"
         THEN VAdd(storeLoaded.velocity, storeDelta)
         ELSE VSub(storeLoaded.velocity, storeDelta)]

\* C8 witness: two active fibers share a particle; this one stored it after the
\* other had, from a copy loaded before the other's store, so the particle holds
\* the loaded velocity and this fiber's delta only
C8_Witness ==
  /\ storeStep
  /\ storeDelta /= Zero3
  /\ last.overwrote.velocity /= storeLoaded.velocity
  /\ \E k \in FiberIds \ {last.index} :
       /\ fibers[k].isActive = 1
       /\ storeTarget \in {fibers[k].start, fibers[k].end}
       /\ gpu.pc[k] \in {"storeEnd", "done"}
  /\ particles[storeTarget].velocity /= last.overwrote.velocity

C11_DisableKeepsFibers ==
  [][/\ (webgpuSystem.fibersEnabled /\ ~webgpuSystem'.fibersEnabled)
        => fibers' = fibers /\ queue' = queue
     /\ (~webgpuSystem.fibersEnabled /\ ~webgpuSystem'.fibersEnabled)
        => fibers' = fibers
     /\ (gpu.stage = "particlePass" /\ gpu'.stage /= "particlePass")
        => (gpu'.stage = "fiberPass" <=> webgpuSystem.fibersEnabled)
     /\ gpu'.stage = "fiberPass" => gpu.stage \in {"particlePass", "fiberPass"}]_vars

\* C11 witness: fibers were disabled while the store held an active fiber, and the
\* particle pass of a later frame has ended without a fiber pass
C11_Witness ==
  /\ ~webgpuSystem.fibersEnabled
  /\ \E k \in FiberIds : fibers[k].isActive = 1
  /\ frame >= 1
  /\ simFrame[0] = frame
  /\ gpu.stage = "idle"
  /\ queue = << >>

\* C12: at every dispatch the particle count given to the particle pass (the uniform
\* value and the invocations of the workgroups) stays within the capacity the particle
\* store was allocated for, so no index at or beyond the capacity is processed.
C12_WithinCapacity ==
  gpu.stage = "particlePass"
    => /\ uniforms.particleCount <= Capacity
       /\ gpu.pending \subseteq ParticleIds

\* C13: once the system is constructed, and after any sequence of setParticleCount
\* calls with integer counts, its particleCount lies between the lower and the upper
\* limit of the clamp.
C13_CountInRange ==
  webgpuSystem.created
    => webgpuSystem.particleCount \in MinCount .. MaxCount

\* C13 witness: a count above the upper limit was requested and the system holds the
\* upper limit
C13_Witness ==
  /\ webgpuSystem.created
  /\ last.kind = "sliderParticleCount"
  /\ controlState.particleCount = MaxCount + 1
  /\ webgpuSystem.particleCount = MaxCount

\* C14: a new morph request cancels the tween in flight: every tween that writes the
\* positions in an animation frame is the tween of the latest request, and when the
\* last tween has finished the positions are the destination of the latest request.
C14_LastWriterWins ==
  last.kind = "tween"
    => /\ \A k \in DOMAIN last.wrote : last.wrote[k] = shapeIndex
       /\ tweens = << >>
            => mirror.position = [i \in 0 .. (mirror.n - 1) |-> targetPoint(shapeIndex, i)]

\* C16: when no compute backend is available the initialization still starts the
\* frame loop with useWebGPU false, useWebGPU stays false from then on, and no frame
\* or control event writes uniforms or submits compute work: the queue stays empty,
\* the GPU idle and the uniform stores as they were created.
C16_FallbackWithoutGpu ==
  [][/\ (started /\ ~useWebGPU) => ~useWebGPU'
     /\ (started' /\ ~useWebGPU')
          => /\ queue' = << >>
             /\ gpu' = IdleGpu
             /\ readbacks' = {}
             /\ uniforms' = ZeroUniforms
             /\ fiberUniforms' = ZeroFiberUniforms
             /\ uniformsFrame' = 0]_vars

\* C16 witness: device or pipeline creation threw (the system object exists, the
\* backend is off) and the frames of the loop have run on the fallback
C16_Witness ==
  /\ started
  /\ ~useWebGPU
  /\ webgpuSystem.created
  /\ frame = MaxFrames
  /\ last.kind = "frame"

\* C15: while the GPU backend is active no step of the CPU path - a frame of the loop
\* or an animation frame of a morph tween - writes the positions of the mirror.
C15_CpuPathOnlyWithoutGpu ==
  [][(useWebGPU /\ last'.kind \in {"frame", "tween"})
       => mirror'.position = mirror.position]_vars

\* C17: in a frame of the fallback the displacement applyHoverEffects gives a
\* particle is the pointer term of the particle shader for the same position, pointer
\* position, radius, strength, influence and mode: the same pointer point and
\* direction, magnitude (1 - d/radius)^2 x strength x influence inside the radius,
\* zero outside.
C17_FallbackFollowsShaderRule ==
  [][(~useWebGPU /\ last'.kind = "frame")
       => \A i \in 0 .. (mirror.n - 1) :
            VSub(mirror'.position[i], mirror.position[i])
              = mouseForce([ZeroParticle EXCEPT !.position = mirror.position[i]],
                           [mousePos |-> controlState.mousePos,
                            hoverRadius |-> controlState.hoverRadius,
                            hoverStrength |-> controlState.hoverStrength,
                            mouseInfluence |-> controlState.mouseInfluence,
                            hoverRepulsion |-> IF controlState.hoverRepulsion
                                               THEN 1 ELSE 0])]_vars

\* C18: once updateUniforms of the current frame has written the stores, every field it
\* wrote equals the value the host snapshot holds for it, 0 included.
C18_UniformsEqualSnapshot ==
  (uniformsFrame >= 1 /\ uniformsFrame = frame /\ queue = << >>)
    => /\ uniforms.gravity = controlState.gravity
       /\ uniforms.turbulence = controlState.turbulence
       /\ uniforms.attraction = controlState.attraction
       /\ uniforms.mousePos = controlState.mousePos
       /\ uniforms.hoverRadius = controlState.hoverRadius
       /\ uniforms.hoverStrength = controlState.hoverStrength
       /\ uniforms.mouseInfluence = controlState.mouseInfluence
       /\ uniforms.hoverRepulsion = (IF controlState.hoverRepulsion THEN 1 ELSE 0)
       /\ uniforms.respawnRate = controlState.respawnRate
       /\ fiberUniforms.maxDistance = controlState.connectionDistance
       /\ fiberUniforms.springStrength = controlState.fiberStrength

\* the particle the forces of the recorded step act on, its offset and distance from
\* the pointer point (pointer x, pointer y, 0), and the pointer force on it
pointerParticle == lifeCycle(last.before, last.uniforms)
pointerOffset ==
  VSub(pointerParticle.position,
       <<last.uniforms.mousePos[1], last.uniforms.mousePos[2], 0>>)
pointerDistance == Length(pointerOffset)
pointerForce == mouseForce(pointerParticle, last.uniforms)
\* (1 - d/pointerRadius)^2 x pointerStrength x pointerInfluence, as
\* (radius - d)^2 x strength x influence / radius^2
pointerMagnitude ==
  Quot(Quot((last.uniforms.hoverRadius - pointerDistance)
              * (last.uniforms.hoverRadius - pointerDistance)
              * last.uniforms.hoverStrength,
            last.uniforms.hoverRadius)
         * last.uniforms.mouseInfluence,
       last.uniforms.hoverRadius * Scale)
\* what the fixed-point arithmetic may lose of that magnitude: each component of the
\* unit direction is short by less than 1/Scale, and each product rounds toward zero
pointerTolerance == 3 + Quot(pointerMagnitude, 25)
\* the step's stored record is the integration of the other forces plus force
storedWithPointerForce(force) ==
  LET p2 == integrate(pointerParticle,
                      VAdd(VAdd(turbulenceForce(pointerParticle, last.uniforms),
                                gravityForce(last.uniforms)),
                           VAdd(targetForce(pointerParticle, last.uniforms,
                                            last.morphTarget, last.hasTarget),
                                force)),
                      last.uniforms.deltaTime)
  IN stepStored = [p2 EXCEPT !.color = velocityColor(p2.velocity)]

C20_NegativeRadiusNoForce ==
  controlState.hoverRadius < 0
    => /\ uniformsFrame >= 1 => uniforms.hoverRadius = controlState.hoverRadius
       /\ last.kind = "particle"
            => /\ pointerForce = Zero3
               /\ storedWithPointerForce(Zero3)
       /\ (hostTurn /\ frame < MaxFrames)
            => ENABLED (\E dt \in DtValues \cup {0} : animate(dt))

\* C20 witness: with a negative radius in the snapshot, a particle lying closer to
\* the pointer than the size of the radius has been stepped in the last frame explored
C20_Witness ==
  /\ controlState.hoverRadius < 0
  /\ useWebGPU
  /\ frame = MaxFrames
  /\ last.kind = "particle"
  /\ last.uniforms.deltaTime > 0
  /\ pointerDistance < Abs(last.uniforms.hoverRadius)

\* the attraction term of a particle step, were the attraction target the point t
storedWithAttractionTarget(t) ==
  LET p1 == lifeCycle(last.before, last.uniforms)
      force == VAdd(VAdd(turbulenceForce(p1, last.uniforms), gravityForce(last.uniforms)),
                    VAdd(VScale(VSub(t, p1.position), last.uniforms.attraction),
                         mouseForce(p1, last.uniforms)))
      p2 == integrate(p1, force, last.uniforms.deltaTime)
  IN stepStored = [p2 EXCEPT !.color = velocityColor(p2.velocity)]
\* the attraction target the supplied array gives particle last.index: the mix of the
\* anchor with the array's entry where it has one, the anchor where it has none
suppliedAttractionTarget ==
  LET anchor == lifeCycle(last.before, last.uniforms).targetPos
  IN IF last.index < Len(supplied.values)
     THEN Mix(anchor, supplied.values[last.index + 1], last.uniforms.morphProgress)
     ELSE anchor

C22_InsufficientArrayIgnored ==
  [][(last'.kind \in {"updateTargets", "updateParticles"}
        /\ (~last'.data.present \/ Len(last'.data.values) < webgpuSystem.particleCount))
       => (/\ queue' = queue
           /\ particles' = particles
           /\ targets' = targets
           /\ started'
           /\ frame' = frame)]_vars
\* a frame's particle step that runs after a short array was turned away, on targets
\* that are still the ones the store was created with
C22_Witness ==
  /\ last.kind = "particle"
  /\ supplied.present
  /\ Len(supplied.values) < webgpuSystem.particleCount
  /\ \A i \in ParticleIds : targets[i] = Zero3

\* C23: every invocation of the frame callback leaves the next frame scheduled, also
\* when a statement of the frame throws or a readback rejects, and the steps that
\* fail without throwing (a rejected readback, an array that is too short, a radius
\* out of range) leave the loop running.
C23_NextFrameScheduled ==
  [][(frame' /= frame \/ last'.kind = "syncFailed") => started']_vars
\* a frame in which a statement threw, after which the next frame can run
C23_Witness ==
  /\ last.kind = "thrown"
  /\ started
  /\ frame < MaxFrames
  /\ ENABLED (\E dt \in DtValues : animate(dt))

\* C24: the frame callback in which a tween that is the only one running reaches
\* progress 1 leaves every position equal to the destination's; the progress of
\* every running tween lies in [0, 1]; and while no tween is running no step is a
\* tween callback.
C24_TweenReachesDestination ==
  /\ [](\A k \in 1 .. Len(tweens) :
          tweenProgress(tweens[k]) >= 0 /\ tweenProgress(tweens[k]) <= Scale)
  /\ [][(last'.kind = "tween" /\ Len(tweens) = 1 /\ tweens' = << >>)
          => \A i \in 0 .. (mirror.n - 1) :
               mirror'.position[i] = targetPoint(tweens[1].dest, i)]_vars
  /\ [][tweens = << >> => last'.kind /= "tween"]_vars
\* a single tween has completed and the positions, moved from where they started,
\* are the destination's
C24_Witness ==
  /\ last.kind = "tween"
  /\ tweens = << >>
  /\ Len(last.wrote) = 1
  /\ \A i \in 0 .. (mirror.n - 1) : mirror.position[i] = targetPoint(last.wrote[1], i)
  /\ mirror.position /= initializeTargets(mirror).position

\* C25: while the GPU backend is active the mirror's position and color arrays have
\* one entry per particle of the simulation's particle count (particleCount x 3
\* floats), after any sequence of count changes, preset applications and readbacks.
C25_MirrorMatchesCount ==
  (started /\ gpuActive)
    => /\ mirror.n = webgpuSystem.particleCount
       /\ DOMAIN mirror.position = 0 .. (webgpuSystem.particleCount - 1)
       /\ DOMAIN mirror.color = 0 .. (webgpuSystem.particleCount - 1)

\* C26: every work item of the particle pass reads and writes the record of its own
\* index alone: the invocation of index i leaves every other record as it was and,
\* where i lies inside the store, stores the function of particles[i], the uniforms and
\* targets[i]; so the store after the pass does not depend on the order of the items.
C26_WorkItemsIndependent ==
  [][(gpu.stage = "particlePass" /\ gpu'.pending /= gpu.pending)
       => \E i \in gpu.pending \ gpu'.pending :
            /\ \A h \in ParticleIds \ {i} : particles'[h] = particles[h]
            /\ i \in ParticleIds
                 => particles'[i] = particleMain(particles[i], uniforms, targets[i], TRUE)
            /\ UNCHANGED <<uniforms, targets>>]_vars

\* the fiber entries of a store or of a queued upload that are marked active join two
\* distinct particles of the store
activeFibersValid(data) ==
  \A k \in FiberIds :
    data[k].isActive * 2 >= 1
      => /\ data[k].start /= data[k].end
         /\ data[k].start \in ParticleIds
         /\ data[k].end \in ParticleIds

C28_FiberFlagsAgree ==
  (started /\ gpuActive /\ frame >= 1)
    => webgpuSystem.fibersEnabled = controlState.fibersEnabled

\* C29: once every updateParticleCount call has resumed from its target loads, the
\* particle object held by the host is the one built for the count requested last, it
\* is the only particle object in the scene, and each morph-target array attached to
\* it has that count of points.
C29_LatestCountWins ==
  (started /\ loads = {} /\ mirror.id /= 0)
    => /\ mirror.n = controlState.particleCount
       /\ scene = {mirror.id}
       /\ \A k \in DOMAIN mirror.userTargets :
            mirror.userTargets[k] = controlState.particleCount

\* C30: while controlState.hoverEnabled is false no frame applies a pointer term: on
\* the GPU path every particle step is the integration of the other forces alone, and
\* on the fallback path a frame leaves the position array as it was.
C30_NoPointerEffectWhenDisabled ==
  /\ []((last.kind = "particle" /\ ~controlState.hoverEnabled)
          => storedWithPointerForce(Zero3))
  /\ [][(last'.kind = "frame" /\ ~useWebGPU /\ ~controlState.hoverEnabled)
          => mirror'.position = mirror.position]_vars

====
